---- MODULE Spec2Model ----
(***************************************************************************)
(* Model of src/app.py, the Streamlit dashboard "Painel de Acompanhamento  *)
(* de Visitas NWB".  One run of the script is a straight-line program:     *)
(* load_data, the sidebar widgets, the three filters, then the eight       *)
(* views.  Each section of the script is one action; pc is the position of *)
(* the run.  The two Excel files, the current date and the user's widget   *)
(* choices are the inputs.                                                 *)
(*                                                                         *)
(* Encoding of pandas values                                               *)
(*   - a DataFrame is [columns |-> set of headers, rows |-> sequence of    *)
(*     functions from header to cell]; the row order is the frame's order; *)
(*   - a nullable cell (dates, foco, numeric meta_dias) is <<>> for NaN /  *)
(*     NaT and <<v>> for a value; Python's None is <<>> as well;           *)
(*   - a timestamp is an integer count of ticks, TicksPerDay ticks a day,  *)
(*     so a cell can carry a time of day; a date is a day number;          *)
(*   - a raw meta_dias cell is its text ("" for an empty cell).            *)
(***************************************************************************)
EXTENDS Integers, Sequences, FiniteSets, TLC

VARIABLES
    file_clientes,            \* dClientes.xlsx: [exists, columns, rows]
    file_visitas,             \* fVisitas.xlsx:  [exists, columns, rows]
    today,                    \* date.today(), a day number
    pc,                       \* position of the script run
    errors,                   \* st.error messages, in order
    merge_calls,              \* number of pd.merge calls load_data has made
    df_visitas_completas,     \* <<>> (None) or <<frame>>
    df_clientes_base,         \* <<>> (None) or <<frame>>
    sidebar,                  \* values computed in section 2 of the script
    df_filtrado,              \* the filtered frame of section 3
    rendered,                 \* per view: "pending", "content", "info", "warning", "error"
    out                       \* the tables computed by the views

vars == << file_clientes, file_visitas, today, pc, errors, merge_calls, df_visitas_completas,
           df_clientes_base, sidebar, df_filtrado, rendered, out >>

-----------------------------------------------------------------------------
(* Bounds of the model *)

MaxVisitas == 2
MaxClientes == 2
MaxDay == 2
TicksPerDay == 2

(* Constants of the program *)

JANELA_PADRAO == 30
JANELA_FALLBACK == 365
JANELA_PROXIMOS == 15

None == << >>
Some(v) == << v >>
NotNa(o) == o # << >>
Blank == ""

merge_cols == {"codigo_responsavel", "responsavel", "codigo_cliente", "cliente"}

-----------------------------------------------------------------------------
(* Generic sequence and set helpers *)

SeqsUpTo(S, n) == UNION { [1..k -> S] : k \in 0..n }

Range(s) == { s[i] : i \in DOMAIN s }

Max(S) == CHOOSE x \in S : \A y \in S : y <= x
Min(S) == CHOOSE x \in S : \A y \in S : x <= y

RECURSIVE Flatten(_)
Flatten(ss) == IF ss = << >> THEN << >> ELSE Head(ss) \o Flatten(Tail(ss))

(* boolean indexing df[mask]: the rows satisfying Test, in order *)
Where(df, Test(_)) == [columns |-> df.columns, rows |-> SelectSeq(df.rows, Test)]

Empty(df) == df.rows = << >>

-----------------------------------------------------------------------------
(* Header normalisation: columns.str.strip().str.lower() *)

MessyHeader ==
    [ codigo_responsavel |-> "Codigo_Responsavel ",
      responsavel        |-> " RESPONSAVEL",
      codigo_cliente     |-> "CODIGO_CLIENTE",
      cliente            |-> " Cliente ",
      status             |-> "Status",
      foco               |-> "FOCO ",
      data_realizada     |-> " Data_Realizada",
      data_planejada     |-> "Data_Planejada ",
      meta_dias          |-> " Meta_Dias " ]

StripLower(h) ==
    IF \E n \in DOMAIN MessyHeader : MessyHeader[n] = h
    THEN CHOOSE n \in DOMAIN MessyHeader : MessyHeader[n] = h
    ELSE h

NormalizeColumns(df) ==
    LET cols == { StripLower(h) : h \in df.columns }
        raw(n) == CHOOSE h \in df.columns : StripLower(h) = n
    IN  [ columns |-> cols,
          rows    |-> [ i \in DOMAIN df.rows |-> [ n \in cols |-> df.rows[i][raw(n)] ] ] ]

-----------------------------------------------------------------------------
(* Cell coercions *)

NumeralValue == ( "0" :> 0 @@ "1" :> 1 @@ "2" :> 2 @@ "3" :> 3 )

(* pd.to_numeric(errors='coerce') on one cell: the number a numeral denotes, *)
(* NaN for an empty cell or any other text                                   *)
ToNumeric(cell) ==
    IF cell \in DOMAIN NumeralValue THEN Some(NumeralValue[cell]) ELSE None

(* pd.to_datetime(errors='coerce') on one cell that is already a timestamp or empty *)
ToDatetime(cell) == cell

MapColumn(df, col, F(_)) ==
    [ columns |-> df.columns,
      rows    |-> [ i \in DOMAIN df.rows |->
                      [ c \in df.columns |->
                          IF c = col THEN F(df.rows[i][c]) ELSE df.rows[i][c] ] ] ]

-----------------------------------------------------------------------------
(* pd.merge(left, right, on=merge_cols, how='left') *)

SuffixX(c) == IF c = "meta_dias" THEN "meta_dias_x" ELSE c
SuffixY(c) == IF c = "meta_dias" THEN "meta_dias_y" ELSE c

(* faulty variant: a join on the client columns alone *)
KeysEqual_cliente(l, r, on) == l["codigo_cliente"] = r["codigo_cliente"] /\ l["cliente"] = r["cliente"]

KeysEqual(l, r, on) == \A k \in on : l[k] = r[k]

MergedColumns(lcols, rcols, on) ==
    LET both == (lcols \cap rcols) \ on
    IN  on \cup (lcols \ rcols) \cup (rcols \ lcols)
           \cup { SuffixX(c) : c \in both } \cup { SuffixY(c) : c \in both }

(* the merged row of left row l and right row r; r = <<>> when l has no match *)
MergedRow(l, lcols, r, rcols, on) ==
    LET both == (lcols \cap rcols) \ on
    IN  [ c \in MergedColumns(lcols, rcols, on) |->
            IF c \in on THEN l[c]
            ELSE IF c \in lcols \ rcols THEN l[c]
            ELSE IF c \in rcols \ lcols THEN (IF r = << >> THEN Blank ELSE r[1][c])
            ELSE IF \E b \in both : SuffixX(b) = c
                 THEN l[CHOOSE b \in both : SuffixX(b) = c]
            ELSE IF r = << >> THEN Blank
                 ELSE r[1][CHOOSE b \in both : SuffixY(b) = c] ]

LeftMatches(l, right, on) ==
    SelectSeq(right.rows, LAMBDA r : KeysEqual(l, r, on))

(* faulty variant: how='inner', the left rows without a match are dropped *)
MergeLeft_inner(left, right, on) ==
    LET rowsFor(l) ==
            LET m == SelectSeq(right.rows, LAMBDA r : KeysEqual(l, r, on))
            IN  [ j \in DOMAIN m |->
                    MergedRow(l, left.columns, << m[j] >>, right.columns, on) ]
    IN  [ columns |-> MergedColumns(left.columns, right.columns, on),
          rows    |-> Flatten([ i \in DOMAIN left.rows |-> rowsFor(left.rows[i]) ]) ]

MergeLeft(left, right, on) ==
    LET rowsFor(l) ==
            LET m == LeftMatches(l, right, on)
            IN  IF m = << >>
                THEN << MergedRow(l, left.columns, << >>, right.columns, on) >>
                ELSE [ j \in DOMAIN m |->
                         MergedRow(l, left.columns, << m[j] >>, right.columns, on) ]
    IN  [ columns |-> MergedColumns(left.columns, right.columns, on),
          rows    |-> Flatten([ i \in DOMAIN left.rows |-> rowsFor(left.rows[i]) ]) ]

-----------------------------------------------------------------------------
(* load_data, lines 16-63 *)

ERR_NO_CLIENTES == "Arquivo nao encontrado: dClientes.xlsx"
ERR_NO_VISITAS == "Arquivo nao encontrado: fVisitas.xlsx"
ERR_MERGE_COLS == "Colunas essenciais para o merge ausentes em uma das bases."
ERR_EXCEPTION == "Erro ao carregar ou processar os dados"

ReadExcel(file) == [columns |-> file.columns, rows |-> file.rows]

(* faulty variant: any() in place of all() *)
HasMergeCols_any(df) == \E col \in merge_cols : col \in df.columns

HasMergeCols(df) == \A col \in merge_cols : col \in df.columns

(* lines 49-56: the typed columns of the merged frame *)
CoerceColumns(df) ==
    LET d1 == IF "data_realizada" \in df.columns
              THEN MapColumn(df, "data_realizada", ToDatetime) ELSE df
        d2 == IF "data_planejada" \in d1.columns
              THEN MapColumn(d1, "data_planejada", ToDatetime) ELSE d1
    IN  IF "meta_dias" \in d2.columns
        THEN MapColumn(d2, "meta_dias", ToNumeric) ELSE d2

(* pd.merge raises KeyError when a frame lacks a column named in `on` *)
MergeRaises(left, right, on) == ~(on \subseteq left.columns /\ on \subseteq right.columns)

(* the value load_data returns, the message it reports, if any, and whether it *)
(* called pd.merge                                                             *)
load_data ==
    IF ~file_clientes.exists
    THEN [merged |-> None, clientes |-> None, error |-> << ERR_NO_CLIENTES >>, merges |-> 0]
    ELSE IF ~file_visitas.exists
    THEN [merged |-> None, clientes |-> None, error |-> << ERR_NO_VISITAS >>, merges |-> 0]
    ELSE
      LET df_clientes == NormalizeColumns(ReadExcel(file_clientes))
          df_visitas  == NormalizeColumns(ReadExcel(file_visitas))
      IN  IF ~HasMergeCols(df_clientes) \/ ~HasMergeCols(df_visitas)
          THEN [merged |-> None, clientes |-> None, error |-> << ERR_MERGE_COLS >>, merges |-> 0]
          ELSE IF MergeRaises(df_visitas, df_clientes, merge_cols)
          THEN \* lines 60-63: the except clause
               [merged |-> None, clientes |-> None, error |-> << ERR_EXCEPTION >>, merges |-> 1]
          ELSE [merged   |-> Some(CoerceColumns(MergeLeft(df_visitas, df_clientes, merge_cols))),
                clientes |-> Some(df_clientes),
                error    |-> << >>,
                merges   |-> 1]

-----------------------------------------------------------------------------
(* Section 2 of the script: the sidebar, lines 72-141 *)

DateOf(ts) == ts \div TicksPerDay
Timestamp(day) == day * TicksPerDay

ColumnDates(df, col) ==
    IF col \in df.columns
    THEN { df.rows[i][col][1] : i \in { j \in DOMAIN df.rows : NotNa(df.rows[j][col]) } }
    ELSE {}

(* lines 80-84 *)
all_dates(df) == ColumnDates(df, "data_realizada") \cup ColumnDates(df, "data_planejada")

(* lines 87-92 *)
min_available_date(df, hoje) ==
    IF all_dates(df) # {} THEN DateOf(Min(all_dates(df))) ELSE hoje - JANELA_FALLBACK
max_available_date(df, hoje) ==
    IF all_dates(df) # {} THEN DateOf(Max(all_dates(df))) ELSE hoje

(* lines 95-96 *)
default_start_date(df, hoje) ==
    LET a == min_available_date(df, hoje)
        b == hoje - JANELA_PADRAO
    IN  IF a >= b THEN a ELSE b
default_end_date(df, hoje) == max_available_date(df, hoje)

(* the days the user picks from, within the widget's limits *)
PickDays(lo, hi) == { d \in {lo, hi} \cup (1..MaxDay) : lo <= d /\ d <= hi }

RECURSIVE DropDuplicates(_)
DropDuplicates(s) ==
    IF s = << >> THEN << >>
    ELSE LET init == DropDuplicates(SubSeq(s, 1, Len(s) - 1))
             last == s[Len(s)]
         IN  IF last \in Range(init) THEN init ELSE Append(init, last)

(* df[[name, code]].drop_duplicates().set_index(name).to_dict()[code]: *)
(* a later pair overwrites an earlier one with the same name           *)
NameToCode(df, name, code) ==
    LET pairs == DropDuplicates([ i \in DOMAIN df.rows |-> << df.rows[i][name], df.rows[i][code] >> ])
        names == { pairs[i][1] : i \in DOMAIN pairs }
        lastOf(n) == Max({ i \in DOMAIN pairs : pairs[i][1] = n })
    IN  [ n \in names |-> pairs[lastOf(n)][2] ]

clientes_map(df) == NameToCode(df, "cliente", "codigo_cliente")
responsaveis_map(df) == NameToCode(df, "responsavel", "codigo_responsavel")

(* the options of a selectbox: 'Todos' and the names of the roster *)
Options(df, name) == {"Todos"} \cup { df.rows[i][name] : i \in DOMAIN df.rows }

(* lines 120-122 and 137-139 *)
SelectedCodigo(nome, map) ==
    IF nome # "Todos" /\ nome \in DOMAIN map THEN Some(map[nome]) ELSE None

-----------------------------------------------------------------------------
(* Section 3 of the script: the filters, lines 143-183 *)

(* Python truthiness of a code that may be None: `if selected_codigo:` *)
Truthy(codigo) == codigo # None /\ codigo[1] # 0

FilterByCodigo(df, col, codigo) ==
    IF Truthy(codigo)
    THEN IF col \in df.columns
         THEN Where(df, LAMBDA r : r[col] = codigo[1])
         ELSE df
    ELSE df

(* lines 159-160 *)
start_ts(start_date) == Timestamp(start_date)
(* faulty variant: the end day is not extended by one day *)
end_ts_same_day(end_date) == Timestamp(end_date)
end_ts(end_date) == Timestamp(end_date) + Timestamp(1)

InInterval(cell, lo, hi) == NotNa(cell) /\ cell[1] >= lo /\ cell[1] < hi

(* lines 163-173: the mask of one row *)
date_mask(r, columns, start_date, end_date) ==
    \/ /\ "data_realizada" \in columns
       /\ InInterval(r["data_realizada"], start_ts(start_date), end_ts(end_date))
    \/ /\ "data_planejada" \in columns
       /\ InInterval(r["data_planejada"], start_ts(start_date), end_ts(end_date))

FilterByDate(df, start_date, end_date) ==
    Where(df, LAMBDA r : date_mask(r, df.columns, start_date, end_date))

ApplyFilters(df, cliente_codigo, responsavel_codigo, start_date, end_date) ==
    FilterByDate(
        FilterByCodigo(
            FilterByCodigo(df, "codigo_cliente", cliente_codigo),
            "codigo_responsavel", responsavel_codigo),
        start_date, end_date)

-----------------------------------------------------------------------------
(* Section 4 of the script: the eight views, lines 185-422 *)

hoje_ts(hoje) == Timestamp(hoje)

(* (hoje - ts).dt.days: the whole days of the difference, rounded down *)
DaysBetween(hoje, ts) == (hoje_ts(hoje) - ts) \div TicksPerDay

Column(df, col) == [ i \in DOMAIN df.rows |-> df.rows[i][col] ]
Unique(df, col) == DropDuplicates(Column(df, col))
Count(df, Test(_)) == Len(SelectSeq(df.rows, Test))

(* alphabetical order of the strings of the model, as sorted() and mode() use it *)
Alphabetical == << "Acme", "Adubo", "Ana", "Beta", "Bia", "Cancelado", "Planejado",
                   "Realizado", "Solo" >>
Rank(str) == CHOOSE i \in DOMAIN Alphabetical : Alphabetical[i] = str

(* view 1, lines 200-204 *)
df_proximos_15(df, hoje) ==
    Where(df, LAMBDA r :
        /\ NotNa(r["data_planejada"])
        /\ r["data_planejada"][1] >= hoje_ts(hoje)
        /\ r["data_planejada"][1] <= hoje_ts(hoje) + Timestamp(JANELA_PROXIMOS)
        /\ r["status"] = "Planejado")

(* view 1, lines 208-215: Series.mode()[0], the most frequent non-null value, *)
(* the alphabetically first among equally frequent ones                       *)
foco_principal_15dias(df) ==
    IF Empty(df) THEN "N/A"
    ELSE LET vals == { df.rows[i]["foco"][1] :
                         i \in { j \in DOMAIN df.rows : NotNa(df.rows[j]["foco"]) } }
             n(v) == Count(df, LAMBDA r : r["foco"] = Some(v))
             top  == { v \in vals : \A w \in vals : n(w) <= n(v) }
         IN  IF vals = {} THEN "Nenhum Foco Definido"
             ELSE CHOOSE v \in top : \A w \in top : Rank(v) <= Rank(w)

(* view 2, lines 237-245: count of visits per cliente and status, with the total *)
visitas_pivot(df) ==
    LET clientes == Range(Column(df, "cliente"))
        estados  == Range(Column(df, "status"))
    IN  [ c \in clientes |->
            [ counts |-> [ e \in estados |->
                             Count(df, LAMBDA r : r["cliente"] = c /\ r["status"] = e) ],
              Total_Visitas |-> Count(df, LAMBDA r : r["cliente"] = c) ] ]

(* view 3, line 261 *)
clientes_unicos_df(df) == Unique(df, "cliente")

(* value_counts(): the count of each non-null value *)
ValueCountsNullable(df, col) ==
    LET vals == { df.rows[i][col][1] :
                    i \in { j \in DOMAIN df.rows : NotNa(df.rows[j][col]) } }
    IN  [ v \in vals |-> Count(df, LAMBDA r : r[col] = Some(v)) ]

(* lines 313-316 and 342-345 *)
df_realizadas(df) ==
    Where(df, LAMBDA r : r["status"] = "Realizado" /\ NotNa(r["data_realizada"]))

(* view 4, lines 274-276 *)
visitas_foco(df) ==
    ValueCountsNullable(Where(df, LAMBDA r : r["status"] = "Realizado"), "foco")

(* view 5, line 290 *)
status_counts(df) ==
    [ e \in Range(Column(df, "status")) |-> Count(df, LAMBDA r : r["status"] = e) ]

(* faulty variant: the earliest visit in place of the latest *)
GroupMax_min(df) ==
    { [ cliente |-> c,
        data_realizada |->
            Min({ df.rows[i]["data_realizada"][1] :
                    i \in { j \in DOMAIN df.rows : df.rows[j]["cliente"] = c } }) ]
      : c \in Range(Column(df, "cliente")) }

(* groupby('cliente')['data_realizada'].max(): one row per cliente of the frame *)
GroupMax(df) ==
    { [ cliente |-> c,
        data_realizada |->
            Max({ df.rows[i]["data_realizada"][1] :
                    i \in { j \in DOMAIN df.rows : df.rows[j]["cliente"] = c } }) ]
      : c \in Range(Column(df, "cliente")) }

(* view 6, lines 319-322 *)
ultima_visita(df, hoje) ==
    { [ cliente |-> g.cliente,
        data_realizada |-> g.data_realizada,
        Dias_Desde_Ultima_Visita |-> DaysBetween(hoje, g.data_realizada) ]
      : g \in GroupMax(df_realizadas(df)) }

(* view 7, line 350: drop_duplicates(subset='cliente', keep='first') *)
clientes_metas(df, c) ==
    LET first == Min({ i \in DOMAIN df.rows : df.rows[i]["cliente"] = c })
    IN  df.rows[first]["meta_dias"]

(* faulty variant: late from the day the interval is reached *)
Status_Visita_ge(meta_dias, dias) ==
    IF NotNa(meta_dias) /\ dias >= meta_dias[1] THEN "Atrasado" ELSE "Dentro do Prazo"

(* view 7, lines 360-363 *)
Status_Visita(meta_dias, dias) ==
    IF NotNa(meta_dias) /\ dias > meta_dias[1] THEN "Atrasado" ELSE "Dentro do Prazo"

(* view 7, lines 348-363 *)
clientes_com_metas(df, hoje) ==
    { [ cliente |-> g.cliente,
        meta_dias |-> clientes_metas(df, g.cliente),
        Dias_Desde_Ultima_Visita |-> DaysBetween(hoje, g.data_realizada),
        Status_Visita |-> Status_Visita(clientes_metas(df, g.cliente),
                                        DaysBetween(hoje, g.data_realizada)) ]
      : g \in GroupMax(df_realizadas(df)) }

(* view 8, lines 386-403 *)
todos_clientes_filtrados(clientes, responsavel_codigo) ==
    Range(Column(FilterByCodigo(clientes, "codigo_responsavel", responsavel_codigo), "cliente"))

clientes_visitados_filtrados(visitas, responsavel_codigo) ==
    Range(Column(FilterByCodigo(visitas, "codigo_responsavel", responsavel_codigo), "cliente"))

clientes_nao_visitados_result(clientes, visitas, responsavel_codigo) ==
    todos_clientes_filtrados(clientes, responsavel_codigo)
        \ clientes_visitados_filtrados(visitas, responsavel_codigo)

(* view 8, lines 407-414: the rows of the roster of each client not visited *)
df_nao_visitados(clientes, visitas, responsavel_codigo) ==
    LET base == FilterByCodigo(clientes, "codigo_responsavel", responsavel_codigo)
        info == Range(DropDuplicates([ i \in DOMAIN base.rows |->
                    [ k \in merge_cols |-> base.rows[i][k] ] ]))
    IN  { r \in info :
            r["cliente"] \in clientes_nao_visitados_result(clientes, visitas, responsavel_codigo) }

-----------------------------------------------------------------------------
(* The inputs of a run: the two Excel files and the current date *)

Carteira     == { [codigo |-> 0, nome |-> "Acme"], [codigo |-> 1, nome |-> "Beta"] }
Ana  == [codigo |-> 0, nome |-> "Ana"]
Bia  == [codigo |-> 1, nome |-> "Bia"]
Acme == [codigo |-> 0, nome |-> "Acme"]
Beta == [codigo |-> 1, nome |-> "Beta"]

VisitCols  == merge_cols \cup {"status", "foco", "data_realizada", "data_planejada"}
ClientCols == merge_cols \cup {"meta_dias"}

TS(day, tick) == Timestamp(day) + tick
LastTick == TicksPerDay - 1

VisitRow(resp, cli, status, realizada, planejada, foco) ==
    [ codigo_responsavel |-> resp.codigo, responsavel |-> resp.nome,
      codigo_cliente |-> cli.codigo, cliente |-> cli.nome,
      status |-> status, foco |-> foco,
      data_realizada |-> realizada, data_planejada |-> planejada,
      meta_dias |-> "2" ]

ClientRow(resp, cli, meta) ==
    [ codigo_responsavel |-> resp.codigo, responsavel |-> resp.nome,
      codigo_cliente |-> cli.codigo, cliente |-> cli.nome,
      meta_dias |-> meta ]

Header(style, n) == IF style = "messy" THEN MessyHeader[n] ELSE n

(* a spreadsheet holding the given columns of the given rows under the given header style *)
Sheet(cols, style, rows) ==
    LET heads == { Header(style, n) : n \in cols }
        name(h) == CHOOSE n \in cols : Header(style, n) = h
    IN  [ exists  |-> TRUE,
          columns |-> heads,
          rows    |-> [ i \in DOMAIN rows |-> [ h \in heads |-> rows[i][name(h)] ] ] ]

Missing == [ exists |-> FALSE, columns |-> {}, rows |-> << >> ]

TodayNow   == MaxDay
TodayLate  == MaxDay + JANELA_PADRAO
TodayLater == MaxDay + JANELA_PADRAO + 1

(* join: the roster may repeat a key and carries every kind of meta_dias cell *)
Juncao ==
    { [ clientes |-> Sheet(ClientCols, "plain", cs),
        visitas  |-> Sheet(VisitCols, "plain", vs),
        hoje     |-> TodayNow ] :
      cs \in SeqsUpTo({ ClientRow(Bia, Acme, m) : m \in {"", "0", "abc"} }
                        \cup { ClientRow(Bia, Beta, "0") }, MaxClientes),
      vs \in SeqsUpTo({ VisitRow(Bia, c, "Realizado", Some(TS(1, 0)), None, Some("Solo")) :
                          c \in Carteira }, MaxVisitas) }

(* schema: a file or one column absent, headers in either style *)
EsquemaVisitas ==
    { VisitCols \ {c} : c \in VisitCols } \cup { VisitCols, VisitCols \cup {"meta_dias"} }
EsquemaClientes ==
    { ClientCols, ClientCols \ {"meta_dias"}, ClientCols \ {"cliente"},
      ClientCols \ {"codigo_responsavel"} }

Esquema ==
    { [ clientes |-> IF ce THEN Sheet(cc, cstyle, << ClientRow(Bia, Acme, "1") >>) ELSE Missing,
        visitas  |-> IF ve THEN Sheet(vc, vstyle, vs) ELSE Missing,
        hoje     |-> TodayNow ] :
      ce \in BOOLEAN, ve \in BOOLEAN,
      cc \in EsquemaClientes, vc \in EsquemaVisitas,
      cstyle \in {"plain", "messy"}, vstyle \in {"plain", "messy"},
      vs \in SeqsUpTo({ VisitRow(Bia, Acme, "Realizado", Some(TS(1, 0)), None, Some("Solo")),
                        VisitRow(Bia, Acme, "Planejado", None, Some(TS(MaxDay, 0)), Some("Adubo")) },
                      MaxVisitas) }

(* dates: visits of one client on the first and last day, with and without a time of day *)
Datas ==
    { [ clientes |-> Sheet(ClientCols, "plain", << >>),
        visitas  |-> Sheet(VisitCols, "plain", vs),
        hoje     |-> h ] :
      h \in {TodayNow, TodayLate, TodayLater},
      vs \in SeqsUpTo({ VisitRow(Bia, Acme, "Realizado", dr, dp, None) :
                          dr \in {None, Some(TS(1, LastTick)), Some(TS(MaxDay, 0))},
                          dp \in {None, Some(TS(MaxDay, LastTick))} }
                        \cup { VisitRow(Bia, Acme, "Planejado", dr, Some(TS(MaxDay, LastTick)), None) :
                                 dr \in {None, Some(TS(MaxDay, 0))} }, MaxVisitas) }

(* codes: responsaveis and clientes whose code is 0 or 1 *)
Chaves == { << Ana, Acme >>, << Bia, Acme >>, << Bia, Beta >> }

Filtros ==
    { [ clientes |-> Sheet(ClientCols, "plain", cs),
        visitas  |-> Sheet(VisitCols, "plain", vs),
        hoje     |-> TodayNow ] :
      cs \in SeqsUpTo({ ClientRow(k[1], k[2], "1") : k \in Chaves }, MaxClientes),
      vs \in SeqsUpTo({ VisitRow(k[1], k[2], "Realizado", Some(TS(1, 0)), None, Some("Solo")) :
                          k \in Chaves }, MaxVisitas) }

(* SLA: two clients visited on the eve of today, meta_dias of 0 or 1 day or none *)
Atraso ==
    { [ clientes |-> Sheet(ClientCols, "plain",
                           << ClientRow(Bia, Acme, m1), ClientRow(Bia, Beta, m2) >>),
        visitas  |-> Sheet(VisitCols, "plain", vs),
        hoje     |-> TodayNow ] :
      m1 \in {"0", "1"}, m2 \in {"", "1"},
      vs \in SeqsUpTo({ VisitRow(Bia, Acme, "Realizado", Some(TS(TodayNow - 1, 0)), None, Some("Solo")),
                        VisitRow(Bia, Acme, "Realizado", Some(TS(TodayNow - 1, LastTick)), None, Some("Solo")),
                        VisitRow(Bia, Beta, "Realizado", Some(TS(TodayNow - 1, 0)), None, Some("Adubo")) },
                      MaxVisitas) }

Inputs == Juncao \cup Esquema \cup Datas \cup Filtros \cup Atraso

-----------------------------------------------------------------------------
(* The script run *)

Views == 1..8

NoOut ==
    [ df_proximos_15 |-> None, foco_principal_15dias |-> None, visitas_pivot |-> None,
      clientes_unicos_df |-> None, visitas_foco |-> None, status_counts |-> None,
      ultima_visita |-> None, clientes_com_metas |-> None,
      clientes_nao_visitados_result |-> None, df_nao_visitados |-> None ]

Init ==
    \E i \in Inputs :
        /\ file_clientes = i.clientes
        /\ file_visitas = i.visitas
        /\ today = i.hoje
        /\ pc = "load"
        /\ errors = << >>
        /\ merge_calls = 0
        /\ df_visitas_completas = None
        /\ df_clientes_base = None
        /\ sidebar = None
        /\ df_filtrado = None
        /\ rendered = [ v \in Views |-> "pending" ]
        /\ out = NoOut

(* lines 16-70: load_data and the check of its result *)
LoadData ==
    /\ pc = "load"
    /\ df_visitas_completas' = load_data.merged
    /\ df_clientes_base' = load_data.clientes
    /\ errors' = errors \o load_data.error
    /\ merge_calls' = merge_calls + load_data.merges
    /\ pc' = IF load_data.merged = None \/ load_data.clientes = None
             THEN "stopped_load" ELSE "sidebar"
    /\ UNCHANGED << file_clientes, file_visitas, today, sidebar, df_filtrado, rendered, out >>

(* lines 72-141: the date input and the two selectboxes *)
Sidebar ==
    /\ pc = "sidebar"
    /\ LET df  == df_visitas_completas[1]
           cli == df_clientes_base[1]
           lo  == min_available_date(df, today)
           hi  == max_available_date(df, today)
           dflt == << default_start_date(df, today), default_end_date(df, today) >>
           limits == [ min_available_date |-> lo, max_available_date |-> hi,
                       default_start_date |-> dflt[1], default_end_date |-> dflt[2] ]
       IN  \E date_range \in {dflt} \cup
                              { r \in PickDays(lo, hi) \X PickDays(lo, hi) : r[1] <= r[2] } :
           \E cn \in Options(cli, "cliente"), rn \in Options(cli, "responsavel") :
              /\ sidebar' = limits @@
                   [ start_date |-> date_range[1],
                     end_date   |-> date_range[2],
                     selected_cliente_nome |-> cn,
                     selected_cliente_codigo |-> SelectedCodigo(cn, clientes_map(cli)),
                     selected_responsavel_nome |-> rn,
                     selected_responsavel_codigo |-> SelectedCodigo(rn, responsaveis_map(cli)) ]
              /\ pc' = "filter"
    /\ UNCHANGED << file_clientes, file_visitas, today, errors, merge_calls,
                    df_visitas_completas, df_clientes_base, df_filtrado, rendered, out >>

(* lines 143-183: the three filters and the stop on an empty result *)
Filter ==
    /\ pc = "filter"
    /\ df_filtrado' = Some(ApplyFilters(df_visitas_completas[1],
                                        sidebar.selected_cliente_codigo,
                                        sidebar.selected_responsavel_codigo,
                                        sidebar.start_date, sidebar.end_date))
    /\ pc' = IF Empty(df_filtrado'[1]) THEN "stopped_empty" ELSE "view1"
    /\ UNCHANGED << file_clientes, file_visitas, today, errors, merge_calls,
                    df_visitas_completas, df_clientes_base, sidebar, rendered, out >>

(* the columns each view tests for before it computes (the `if ... in columns` lines) *)
ViewGuard ==
    << {"data_planejada", "foco"},                       \* line 195
       {"status", "cliente"},                            \* line 235
       {"cliente"},                                      \* line 260
       {"foco", "status"},                               \* line 273
       {"status"},                                       \* line 289
       {"data_realizada", "cliente", "status"},          \* line 311
       {"meta_dias", "data_realizada", "cliente"},       \* line 340
       {"cliente", "codigo_responsavel"} >>              \* lines 380-383

(* the columns each view indexes once its guard has passed *)
ViewReads ==
    << {"data_planejada", "status", "foco", "cliente", "responsavel"},   \* lines 200-223
       {"cliente", "status", "codigo_cliente"},                          \* lines 237-241
       {"cliente"},                                                      \* line 261
       {"status", "foco"},                                               \* lines 274-276
       {"status"},                                                       \* line 290
       {"status", "data_realizada", "cliente"},                          \* lines 313-319
       {"status", "data_realizada", "cliente", "meta_dias"},             \* lines 342-350
       {"cliente", "codigo_responsavel", "responsavel", "codigo_cliente"} >> \* lines 386-411

GuardPasses(v, columns) == ViewGuard[v] \subseteq columns
(* indexing a frame by a column it does not have raises KeyError *)
KeyError(v, columns) == ~(ViewReads[v] \subseteq columns)

NextPc(v) == << "view2", "view3", "view4", "view5", "view6", "view7", "view8", "done" >>[v]

(* the outcome of view v on frame columns `columns`: what is shown, where the run goes, *)
(* and the tables computed when the view computes (content or info)                     *)
ViewStep(v, columns, kind, computed) ==
    IF ~GuardPasses(v, columns)
    THEN /\ rendered' = [rendered EXCEPT ![v] = "warning"]
         /\ pc' = NextPc(v)
         /\ out' = out
    ELSE IF KeyError(v, columns)
    THEN /\ rendered' = [rendered EXCEPT ![v] = "error"]
         /\ pc' = "crashed"
         /\ out' = out
    ELSE /\ rendered' = [rendered EXCEPT ![v] = kind]
         /\ pc' = NextPc(v)
         /\ out' = computed @@ out

Frozen == << file_clientes, file_visitas, today, errors, merge_calls, df_visitas_completas,
             df_clientes_base, sidebar, df_filtrado >>

(* lines 193-226 *)
View1 ==
    /\ pc = "view1"
    /\ ViewStep(1, df_filtrado[1].columns, "content",
                [ df_proximos_15 |-> Some(df_proximos_15(df_filtrado[1], today)),
                  foco_principal_15dias |->
                      Some(foco_principal_15dias(df_proximos_15(df_filtrado[1], today))) ])
    /\ UNCHANGED Frozen

(* lines 233-251 *)
View2 ==
    /\ pc = "view2"
    /\ ViewStep(2, df_filtrado[1].columns, "content",
                [ visitas_pivot |-> Some(visitas_pivot(df_filtrado[1])) ])
    /\ UNCHANGED Frozen

(* lines 258-265 *)
View3 ==
    /\ pc = "view3"
    /\ ViewStep(3, df_filtrado[1].columns, "content",
                [ clientes_unicos_df |-> Some(clientes_unicos_df(df_filtrado[1])) ])
    /\ UNCHANGED Frozen

(* lines 271-281 *)
View4 ==
    /\ pc = "view4"
    /\ ViewStep(4, df_filtrado[1].columns, "content",
                [ visitas_foco |-> Some(visitas_foco(df_filtrado[1])) ])
    /\ UNCHANGED Frozen

(* lines 287-302 *)
View5 ==
    /\ pc = "view5"
    /\ ViewStep(5, df_filtrado[1].columns, "content",
                [ status_counts |-> Some(status_counts(df_filtrado[1])) ])
    /\ UNCHANGED Frozen

(* lines 309-331 *)
View6 ==
    /\ pc = "view6"
    /\ ViewStep(6, df_filtrado[1].columns,
                IF Empty(df_realizadas(df_filtrado[1])) THEN "info" ELSE "content",
                [ ultima_visita |-> Some(ultima_visita(df_filtrado[1], today)) ])
    /\ UNCHANGED Frozen

(* lines 338-371 *)
View7 ==
    /\ pc = "view7"
    /\ ViewStep(7, df_filtrado[1].columns,
                IF Empty(df_realizadas(df_filtrado[1])) THEN "info" ELSE "content",
                [ clientes_com_metas |-> Some(clientes_com_metas(df_filtrado[1], today)) ])
    /\ UNCHANGED Frozen

(* lines 377-422 *)
View8 ==
    /\ pc = "view8"
    /\ ViewStep(8, df_clientes_base[1].columns \cap df_visitas_completas[1].columns,
                IF clientes_nao_visitados_result(df_clientes_base[1], df_visitas_completas[1],
                                                 sidebar.selected_responsavel_codigo) = {}
                THEN "info" ELSE "content",
                [ clientes_nao_visitados_result |->
                      Some(clientes_nao_visitados_result(df_clientes_base[1],
                               df_visitas_completas[1], sidebar.selected_responsavel_codigo)),
                  df_nao_visitados |->
                      Some(df_nao_visitados(df_clientes_base[1], df_visitas_completas[1],
                                            sidebar.selected_responsavel_codigo)) ])
    /\ UNCHANGED Frozen

Next ==
    \/ LoadData
    \/ Sidebar
    \/ Filter
    \/ View1
    \/ View2
    \/ View3
    \/ View4
    \/ View5
    \/ View6
    \/ View7
    \/ View8

Spec == Init /\ [][Next]_vars

-----------------------------------------------------------------------------
(* Properties of load_data *)

(* the state load_data leaves when it returns the two frames; they never change later *)
Loaded == pc = "sidebar"

(* the visits table as load_data merges it, and the roster it returns *)
VisitasLidas == NormalizeColumns(ReadExcel(file_visitas))
Roster == df_clientes_base[1]
Merged == df_visitas_completas[1]

SameKey(a, b) ==
    /\ a["codigo_responsavel"] = b["codigo_responsavel"]
    /\ a["responsavel"] = b["responsavel"]
    /\ a["codigo_cliente"] = b["codigo_cliente"]
    /\ a["cliente"] = b["cliente"]

RosterMatches(v) == { j \in DOMAIN Roster.rows : SameKey(v, Roster.rows[j]) }

RosterKeysUnique ==
    \A i, j \in DOMAIN Roster.rows : i # j => ~SameKey(Roster.rows[i], Roster.rows[j])

(* the number of reconciled rows a visit row yields *)
Copies(v) == IF RosterMatches(v) = {} THEN 1 ELSE Cardinality(RosterMatches(v))

(* for each reconciled row in order, the index of the visit row it comes from *)
VisitOf ==
    Flatten([ i \in DOMAIN VisitasLidas.rows |->
                [ k \in 1..Copies(VisitasLidas.rows[i]) |-> i ] ])

(* reconciled row m carries the cells of visit row v *)
CarriesVisit(m, v) ==
    \A c \in VisitasLidas.columns \ {"meta_dias"} : m[c] = v[c]

(* C1 as stated: the reconciled table has exactly as many rows as the visits *)
(* table, for every roster that has the four key columns.                    *)
C1_RowCountAnyRoster ==
    Loaded => Len(Merged.rows) = Len(VisitasLidas.rows)

(* C1, amended: every visit row yields, in order, one reconciled row per      *)
(* roster row with its four-key composite, and one row when no roster row has *)
(* it, each carrying the visit's cells; the reconciled table never has fewer  *)
(* rows than the visits table, and has exactly as many if and only if no      *)
(* visit row matches two roster rows; when no two roster rows share a         *)
(* composite, reconciled row i is visit row i, matched or not.                *)
C1_RowCount ==
    Loaded =>
        /\ Len(Merged.rows) = Len(VisitOf)
        /\ \A k \in DOMAIN Merged.rows :
              CarriesVisit(Merged.rows[k], VisitasLidas.rows[VisitOf[k]])
        /\ Len(Merged.rows) >= Len(VisitasLidas.rows)
        /\ Len(Merged.rows) = Len(VisitasLidas.rows)
              <=> \A i \in DOMAIN VisitasLidas.rows :
                     Cardinality(RosterMatches(VisitasLidas.rows[i])) <= 1
        /\ RosterKeysUnique =>
              /\ Len(Merged.rows) = Len(VisitasLidas.rows)
              /\ \A i \in DOMAIN VisitasLidas.rows :
                    CarriesVisit(Merged.rows[i], VisitasLidas.rows[i])

C1_Witness ==
    /\ Loaded
    /\ RosterKeysUnique
    /\ Len(Roster.rows) >= 2
    /\ \E i, j \in DOMAIN VisitasLidas.rows :
          /\ RosterMatches(VisitasLidas.rows[i]) # {}
          /\ RosterMatches(VisitasLidas.rows[j]) = {}

MetaFromRoster ==
    /\ "meta_dias" \in Roster.columns
    /\ "meta_dias" \notin VisitasLidas.columns

(* C2 as stated: meta_dias of a reconciled row is non-null exactly when a roster *)
(* row has the row's four-key composite.                                        *)
C2_SlaIffMatch ==
    (Loaded /\ MetaFromRoster) =>
        \A i \in DOMAIN Merged.rows :
            NotNa(Merged.rows[i]["meta_dias"]) <=> RosterMatches(Merged.rows[i]) # {}

(* C2, amended: when meta_dias is a column of the roster only, meta_dias of a  *)
(* reconciled row is null if no roster row has the row's composite, and else   *)
(* the numeric value of the meta_dias cell of a roster row with that composite *)
(* (null when that cell is empty or not a number); a non-null meta_dias thus   *)
(* implies a matching roster row with a numeric cell, not the converse.        *)
C2_SlaFromMatch ==
    (Loaded /\ MetaFromRoster) =>
        \A i \in DOMAIN Merged.rows :
            LET m == RosterMatches(Merged.rows[i])
            IN  /\ m = {} => Merged.rows[i]["meta_dias"] = None
                /\ m # {} => \E j \in m :
                      Merged.rows[i]["meta_dias"] = ToNumeric(Roster.rows[j]["meta_dias"])
                /\ NotNa(Merged.rows[i]["meta_dias"]) =>
                      \E j \in m : Roster.rows[j]["meta_dias"] \in {"0", "1", "2", "3"}

C2_Witness ==
    /\ Loaded
    /\ MetaFromRoster
    /\ \E i, j, k \in DOMAIN Merged.rows :
          /\ RosterMatches(Merged.rows[i]) # {} /\ NotNa(Merged.rows[i]["meta_dias"])
          /\ RosterMatches(Merged.rows[j]) # {} /\ Merged.rows[j]["meta_dias"] = None
          /\ RosterMatches(Merged.rows[k]) = {}

(* a join key no header of the file yields after trim and lowercase *)
KeyMissing(file) ==
    \E k \in merge_cols : \A h \in file.columns : h # k /\ h # MessyHeader[k]

(* C8: when both files exist and a join key is missing from either, load_data *)
(* reports the error and returns (None, None) without calling the merge, the  *)
(* run stops and no view is rendered.                                          *)
C8_MissingKeyStops ==
    ( /\ pc # "load"
      /\ file_clientes.exists /\ file_visitas.exists
      /\ KeyMissing(file_clientes) \/ KeyMissing(file_visitas) ) =>
        /\ errors = << ERR_MERGE_COLS >>
        /\ df_visitas_completas = None /\ df_clientes_base = None
        /\ merge_calls = 0
        /\ pc = "stopped_load"
        /\ df_filtrado = None
        /\ \A v \in Views : rendered[v] = "pending"

C8_Witness ==
    /\ pc = "stopped_load"
    /\ file_clientes.exists /\ file_visitas.exists
    /\ KeyMissing(file_visitas) /\ ~KeyMissing(file_clientes)
    /\ file_visitas.rows # << >>

-----------------------------------------------------------------------------
(* Properties of the sidebar and the filters *)

(* C10 as stated: the default range handed to the date input lies within the *)
(* available dates and is ordered: min <= default start <= default end <= max *)
C10_DefaultRangeWellFormed ==
    sidebar # None =>
        /\ sidebar.min_available_date <= sidebar.default_start_date
        /\ sidebar.default_start_date <= sidebar.default_end_date
        /\ sidebar.default_end_date <= sidebar.max_available_date

Filtered == df_filtrado[1]

(* the state the filters leave; df_filtrado never changes later *)
FiltersApplied == pc \in {"view1", "stopped_empty"}

DayInRange(cell) ==
    /\ cell # None
    /\ sidebar.start_date <= DateOf(cell[1])
    /\ DateOf(cell[1]) <= sidebar.end_date

(* a row one of whose two dates falls on a day of [start_date, end_date] *)
DateKept(r) ==
    \E col \in {"data_realizada", "data_planejada"} \cap Merged.columns : DayInRange(r[col])

(* the frame the date filter receives: the reconciled frame after the two code filters *)
BeforeDateFilter ==
    FilterByCodigo(FilterByCodigo(Merged, "codigo_cliente", sidebar.selected_cliente_codigo),
                   "codigo_responsavel", sidebar.selected_responsavel_codigo)

(* C4: the date filter keeps exactly the rows with data_realizada or          *)
(* data_planejada on a day from start_date to end_date, both days included; a *)
(* row with both dates null is dropped.                                       *)
C4_DateFilter ==
    FiltersApplied =>
        /\ Filtered.rows = SelectSeq(BeforeDateFilter.rows, DateKept)
        /\ \A i \in DOMAIN BeforeDateFilter.rows :
              ( \A col \in {"data_realizada", "data_planejada"} \cap Merged.columns :
                    BeforeDateFilter.rows[i][col] = None )
              => BeforeDateFilter.rows[i] \notin Range(Filtered.rows)

C4_Witness ==
    /\ FiltersApplied
    /\ "data_realizada" \in Merged.columns
    /\ \E i, j \in DOMAIN BeforeDateFilter.rows :
          LET a == BeforeDateFilter.rows[i]
              b == BeforeDateFilter.rows[j]
          IN  /\ a \in Range(Filtered.rows)
              /\ a["data_realizada"] = Some(TS(sidebar.end_date, LastTick))
              /\ a["data_planejada"] = None
              /\ b \notin Range(Filtered.rows)
              /\ b["data_realizada"] = Some(TS(sidebar.end_date + 1, 0))

(* C5 as stated: with a client (a responsible) selected, the filtered frame  *)
(* holds exactly the rows with the code of the selected entry that pass the  *)
(* other filters; only 'Todos' leaves the frame unrestricted.                *)
C5_CodeFilters ==
    FiltersApplied =>
        LET byCliente(r) ==
                sidebar.selected_cliente_nome = "Todos"
                \/ r["codigo_cliente"] = clientes_map(Roster)[sidebar.selected_cliente_nome]
            byResponsavel(r) ==
                sidebar.selected_responsavel_nome = "Todos"
                \/ r["codigo_responsavel"] = responsaveis_map(Roster)[sidebar.selected_responsavel_nome]
        IN  Filtered.rows =
                SelectSeq(Merged.rows, LAMBDA r : byCliente(r) /\ byResponsavel(r) /\ DateKept(r))

-----------------------------------------------------------------------------
(* Properties of the views *)

(* C9 as stated: a view whose columns are all present renders, a view that *)
(* reads an absent column shows its warning, and no view raises.           *)
C9_PartialDegradation ==
    \A v \in Views :
        rendered[v] # "pending" =>
            IF ViewReads[v] \subseteq Filtered.columns
            THEN rendered[v] \in {"content", "info"}
            ELSE rendered[v] = "warning"

(* the rows of the filtered frame that count as a completed visit of client c *)
Realizadas(c) ==
    { i \in DOMAIN Filtered.rows :
        /\ Filtered.rows[i]["cliente"] = c
        /\ Filtered.rows[i]["status"] = "Realizado"
        /\ Filtered.rows[i]["data_realizada"] # None }

(* C7: the days-since-last-visit table has exactly one row per client with a  *)
(* Realizado row with a date in the filtered frame; its date is the latest of *)
(* those rows and its value the whole days elapsed from that timestamp to     *)
(* today (the difference rounded down); other clients are absent.            *)
C7_UltimaVisita ==
    (pc = "view7" /\ rendered[6] \in {"content", "info"}) =>
        LET T == out.ultima_visita[1]
        IN  /\ { t.cliente : t \in T } =
                  { c \in { Filtered.rows[i]["cliente"] : i \in DOMAIN Filtered.rows } :
                      Realizadas(c) # {} }
            /\ \A t, u \in T : t.cliente = u.cliente => t = u
            /\ \A t \in T :
                  /\ \E i \in Realizadas(t.cliente) :
                        Filtered.rows[i]["data_realizada"][1] = t.data_realizada
                  /\ \A i \in Realizadas(t.cliente) :
                        Filtered.rows[i]["data_realizada"][1] <= t.data_realizada
                  /\ t.Dias_Desde_Ultima_Visita * TicksPerDay
                        <= today * TicksPerDay - t.data_realizada
                  /\ today * TicksPerDay - t.data_realizada
                        < (t.Dias_Desde_Ultima_Visita + 1) * TicksPerDay

C7_Witness ==
    /\ pc = "view7"
    /\ rendered[6] = "content"
    /\ \E t \in out.ultima_visita[1] :
          /\ \E i \in Realizadas(t.cliente) :
                Filtered.rows[i]["data_realizada"][1] < t.data_realizada
          /\ t.data_realizada % TicksPerDay # 0
          /\ t.Dias_Desde_Ultima_Visita = 0

(* C3: in the SLA table a client is "Atrasado" exactly when its meta_dias is *)
(* not null and its days since the last visit exceed it, and "Dentro do      *)
(* Prazo" otherwise, also when meta_dias is null or equals the days.         *)
C3_StatusVisita ==
    (pc = "view8" /\ rendered[7] \in {"content", "info"}) =>
        \A row \in out.clientes_com_metas[1] :
            /\ row.Status_Visita \in {"Atrasado", "Dentro do Prazo"}
            /\ row.Status_Visita = "Atrasado" <=>
                  ( row.meta_dias # None
                    /\ row.Dias_Desde_Ultima_Visita > row.meta_dias[1] )
            /\ \E u \in out.ultima_visita[1] :
                  /\ u.cliente = row.cliente
                  /\ u.Dias_Desde_Ultima_Visita = row.Dias_Desde_Ultima_Visita

C3_Witness ==
    /\ pc = "view8"
    /\ rendered[7] = "content"
    /\ \E a, b \in out.clientes_com_metas[1] :
          /\ a.Status_Visita = "Atrasado"
          /\ b.meta_dias # None
          /\ b.Dias_Desde_Ultima_Visita = b.meta_dias[1]
          /\ b.Status_Visita = "Dentro do Prazo"

(* the names of the rows of a frame, of the selected responsible when one is selected *)
NamesOfSelected(df) ==
    { df.rows[i]["cliente"] :
        i \in { j \in DOMAIN df.rows :
                  sidebar.selected_responsavel_nome = "Todos"
                  \/ df.rows[j]["codigo_responsavel"] =
                        responsaveis_map(Roster)[sidebar.selected_responsavel_nome] } }

(* C6 as stated: the clients not visited are the names of the roster, of the *)
(* selected responsible when one is selected, minus the names of the visit   *)
(* records restricted the same way.                                          *)
C6_NaoVisitados ==
    (pc = "done" /\ rendered[8] \in {"content", "info"}) =>
        out.clientes_nao_visitados_result[1] = NamesOfSelected(Roster) \ NamesOfSelected(Merged)

====
